---------------------------- MODULE Spec2Model ----------------------------
(***************************************************************************)
(* Model of the fault/LWL decoder of modules/fault/logfmt.py: the message  *)
(* catalog (LwlMsgSet), the fault layout (FaultData), the section framer   *)
(* (Data.process_data), the byte readers (get_data, get_data_circ,         *)
(* get_bytes_left_circ) and the circular log decoder (LwlPrinter).         *)
(*                                                                         *)
(* Python integers are unbounded.  A value read by get_data is kept as its *)
(* base-256 numeral, most significant digit first, so that the 32-bit      *)
(* magics (all >= 2^31) are exact; NatOf turns a numeral into a number.    *)
(* A Python exception that leaves process_data is recorded in exc.         *)
(***************************************************************************)
EXTENDS Integers, Sequences, FiniteSets, TLC

VARIABLES
    lwl_msgs,            \* g_lwl_msg_set.lwl_msgs : id -> [fmt, arg_bytes]
    max_msg_len,         \* g_lwl_msg_set.max_msg_len
    fields,              \* g_fault_data.fields : sequence of FaultField
    max_name_len,        \* g_fault_data.max_name_len
    g_swab,              \* module global g_swab
    data_array,          \* g_data.data_array
    data_len,            \* g_data.data_len
    pc,                  \* "parse", "process", "returned" or "raised"
    idx,                 \* process_data's idx
    out,                 \* lines printed so far
    ret,                 \* process_data's return value: "none", "True", "False"
    exc,                 \* exception that left process_data, or "none"
    call,                \* the last operation called, with its inputs and result
    flips,               \* number of assignments made to the byte-order flag
    dispatched,          \* sections handed to a decoder: [type, offset, len]
    decode               \* lwl.py: the locals of decode_data_file and its callees

vars == <<lwl_msgs, max_msg_len, fields, max_name_len, g_swab, data_array,
          data_len, pc, idx, out, ret, exc, call, flips, dispatched, decode>>

-----------------------------------------------------------------------------
(* Bounds of the model *)

MaxSections == 2      \* sections in a framed blob
MaxBufLen == 4        \* largest LWL buffer (the smallest is MinBufLen)

\* Passes of process_data's loop that are followed: a section of length 0 is
\* dispatched again and again, printing each time
MaxPasses == MaxSections + 2

MaxDataLen == 3       \* lwl.py: most bytes of hex data in a dump file
MaxBufSize == 4       \* lwl.py: largest size a dump file declares

-----------------------------------------------------------------------------
(* Generic helpers *)

Reverse(s) == [i \in 1..Len(s) |-> s[Len(s) + 1 - i]]

RECURSIVE SumSeq(_)
SumSeq(s) == IF s = <<>> THEN 0 ELSE s[1] + SumSeq(Tail(s))

RECURSIVE Zeros(_)
Zeros(n) == IF n = 0 THEN <<>> ELSE <<0>> \o Zeros(n - 1)

\* Python's None where the code holds an index
None == -1

\* A numeral at or above 2^24 is larger than every length of the model; NatOf
\* gives Huge for all of them.
Huge == 256 * 256 * 256

RECURSIVE NatOf(_)
NatOf(v) ==
    IF v = <<>> THEN 0
    ELSE LET hi == NatOf(SubSeq(v, 1, Len(v) - 1))
         IN  IF hi >= 256 * 256 THEN Huge ELSE hi * 256 + v[Len(v)]

-----------------------------------------------------------------------------
(* Section magics and types (class Data) *)

MOD_MAGIC_FAULT == <<222, 173, 0, 1>>       \* 0xdead0001
MOD_MAGIC_LWL == <<240, 13, 0, 1>>          \* 0xf00d0001
MOD_MAGIC_TRAILER == <<192, 218, 0, 1>>     \* 0xc0da0001

SECTION_TYPE_FAULT == 0
SECTION_TYPE_LWL == 1
SECTION_TYPE_TRAILER == 2

magic_to_fault_type ==
    (MOD_MAGIC_FAULT :> SECTION_TYPE_FAULT) @@
    (MOD_MAGIC_LWL :> SECTION_TYPE_LWL) @@
    (MOD_MAGIC_TRAILER :> SECTION_TYPE_TRAILER)

-----------------------------------------------------------------------------
(* Output lines *)

Line(k, text, bytes) == [k |-> k, text |-> text, bytes |-> bytes]


-----------------------------------------------------------------------------
(* Data.get_data: the loop of lines 209-218.  data is the byte array        *)
(* (1-based here), i the 0-based index, n the bytes still to read.          *)

RECURSIVE get_data_loop(_, _, _, _, _, _)
get_data_loop(data, dlen, swab, i, n, value) ==
    IF n = 0 THEN [eof |-> FALSE, value |-> value]
    ELSE IF i >= dlen THEN [eof |-> TRUE, value |-> value]
    ELSE get_data_loop(data, dlen, swab, i + 1, n - 1,
                       IF swab THEN Append(value, data[i + 1])
                               ELSE <<data[i + 1]>> \o value)

get_data(data, dlen, swab, i, num_bytes) ==
    get_data_loop(data, dlen, swab, i, num_bytes, <<>>)

(* Data.get_data_circ: the value is composed big-endian as a number; i may  *)
(* be None, and then the comparison of line 247 raises TypeError.           *)

\* The loop of lines 252-259 composing as get_data does with g_swab False
RECURSIVE get_data_circ_loop_le(_, _, _, _, _, _, _, _)
get_data_circ_loop_le(data, i, n, buf_start_idx, buf_len, put_idx, first_get, value) ==
    IF n = 0 THEN [exc |-> "none", value |-> 0, idx |-> i]
    ELSE IF i = put_idx /\ ~first_get
         THEN [exc |-> "EOFError", value |-> 0, idx |-> i]
    ELSE IF buf_start_idx + i >= Len(data)
         THEN [exc |-> "IndexError", value |-> 0, idx |-> i]
    ELSE LET r == get_data_circ_loop_le(data, IF i + 1 >= buf_len THEN 0 ELSE i + 1,
                                        n - 1, buf_start_idx, buf_len, put_idx,
                                        first_get, value)
         IN  [exc |-> r.exc, value |-> data[buf_start_idx + i + 1] + 256 * r.value,
              idx |-> r.idx]

RECURSIVE get_data_circ_loop(_, _, _, _, _, _, _, _)
get_data_circ_loop(data, i, n, buf_start_idx, buf_len, put_idx, first_get, value) ==
    IF n = 0 THEN [exc |-> "none", value |-> value, idx |-> i]
    ELSE IF i = put_idx /\ ~first_get
         THEN [exc |-> "EOFError", value |-> value, idx |-> i]
    ELSE IF buf_start_idx + i >= Len(data)
         THEN [exc |-> "IndexError", value |-> value, idx |-> i]
    ELSE get_data_circ_loop(data, IF i + 1 >= buf_len THEN 0 ELSE i + 1, n - 1,
                            buf_start_idx, buf_len, put_idx, first_get,
                            value * 256 + data[buf_start_idx + i + 1])

get_data_circ(data, i, num_bytes, buf_start_idx, buf_len, put_idx, first_get) ==
    IF i = None THEN [exc |-> "TypeError", value |-> 0, idx |-> i]
    ELSE IF i >= buf_len THEN [exc |-> "IndexError", value |-> 0, idx |-> i]
    ELSE IF put_idx >= buf_len THEN [exc |-> "IndexError", value |-> 0, idx |-> i]
    ELSE get_data_circ_loop(data, i, num_bytes, buf_start_idx, buf_len,
                            put_idx, first_get, 0)

(* Data.get_bytes_left_circ *)

RECURSIVE get_bytes_left_circ_loop(_, _, _, _, _, _)
get_bytes_left_circ_loop(i, n, buf_len, put_idx, first_get, bytes_left) ==
    IF n = 0 THEN [exc |-> "none", bytes_left |-> bytes_left, idx |-> i]
    ELSE IF i = put_idx /\ ~first_get
         THEN [exc |-> "none", bytes_left |-> bytes_left, idx |-> i]
    ELSE get_bytes_left_circ_loop(IF i + 1 >= buf_len THEN 0 ELSE i + 1, n - 1,
                                  buf_len, put_idx, first_get, bytes_left + 1)

get_bytes_left_circ(i, num_to_check_for, buf_len, put_idx, first_get) ==
    IF i = None THEN [exc |-> "TypeError", bytes_left |-> 0, idx |-> i]
    ELSE IF i >= buf_len THEN [exc |-> "IndexError", bytes_left |-> 0, idx |-> i]
    ELSE IF put_idx >= buf_len THEN [exc |-> "IndexError", bytes_left |-> 0, idx |-> i]
    ELSE get_bytes_left_circ_loop(i, num_to_check_for, buf_len, put_idx,
                                  first_get, 0)

-----------------------------------------------------------------------------
(* LwlMsg and LwlMsgSet.  fmt is the format string cut into pieces, a "%d"  *)
(* piece being a conversion slot; arg_bytes is the sequence of the digits   *)
(* of the arg-length string.                                                *)

LwlMsg(fmt, arg_bytes) ==
    [fmt |-> fmt, arg_bytes |-> arg_bytes, num_arg_bytes |-> SumSeq(arg_bytes)]

add_lwl_msg_overwrite(msgs, maxlen, id, fmt, arg_bytes) ==
    LET msg_len == 1 + SumSeq(arg_bytes)
    IN  [ret |-> id \notin DOMAIN msgs,
         lwl_msgs |-> [k \in DOMAIN msgs \cup {id} |->
                          IF k = id THEN LwlMsg(fmt, arg_bytes) ELSE msgs[k]],
         max_msg_len |-> IF msg_len > maxlen THEN msg_len ELSE maxlen]

\* add_lwl_msg taking the length of the message added for max_msg_len
add_lwl_msg_lastlen(msgs, maxlen, id, fmt, arg_bytes) ==
    IF id \in DOMAIN msgs
    THEN [ret |-> FALSE, lwl_msgs |-> msgs, max_msg_len |-> maxlen]
    ELSE [ret |-> TRUE,
          lwl_msgs |-> [k \in DOMAIN msgs \cup {id} |->
                           IF k = id THEN LwlMsg(fmt, arg_bytes) ELSE msgs[k]],
          max_msg_len |-> 1 + SumSeq(arg_bytes)]

add_lwl_msg(msgs, maxlen, id, fmt, arg_bytes) ==
    IF id \in DOMAIN msgs
    THEN [ret |-> FALSE, lwl_msgs |-> msgs, max_msg_len |-> maxlen]
    ELSE LET msg_len == 1 + SumSeq(arg_bytes)
         IN  [ret |-> TRUE,
              lwl_msgs |-> [k \in DOMAIN msgs \cup {id} |->
                               IF k = id THEN LwlMsg(fmt, arg_bytes) ELSE msgs[k]],
              max_msg_len |-> IF msg_len > maxlen THEN msg_len ELSE maxlen]

\* get_metadata: found is FALSE where the code returns None
NoMsg == LwlMsg(<<>>, <<>>)

get_metadata(msgs, id) ==
    IF id \in DOMAIN msgs THEN [found |-> TRUE, msg |-> msgs[id]]
    ELSE [found |-> FALSE, msg |-> NoMsg]

(* The % operator of line 550 for formats of literals and %d slots: it      *)
(* raises TypeError unless the slots and the arguments are equally many.    *)

RECURSIVE NumSlots(_)
NumSlots(fmt) ==
    IF fmt = <<>> THEN 0
    ELSE (IF fmt[1] = "%d" THEN 1 ELSE 0) + NumSlots(Tail(fmt))

RECURSIVE Render(_, _)
Render(fmt, args) ==
    IF fmt = <<>> THEN ""
    ELSE IF fmt[1] = "%d" THEN ToString(args[1]) \o Render(Tail(fmt), Tail(args))
    ELSE fmt[1] \o Render(Tail(fmt), args)

FormatMsg(fmt, args) ==
    IF NumSlots(fmt) # Len(args)
    THEN [exc |-> "TypeError", text |-> ""]
    ELSE [exc |-> "none", text |-> Render(fmt, args)]


-----------------------------------------------------------------------------
(* LwlPrinter.get_optimal_start_idx *)

\* The trial loop counting also a known id whose arguments are cut short
RECURSIVE ResyncTrialCountPartial(_, _, _, _, _, _, _, _)
ResyncTrialCountPartial(data, msgs, buf_start_idx, buf_len, put_idx, i, first_get, invalid_id_ctr) ==
    LET g == get_data_circ(data, i, 1, buf_start_idx, buf_len, put_idx, first_get)
        msg_meta == get_metadata(msgs, g.value)
    IN  IF g.exc = "EOFError" THEN [exc |-> "none", invalid_id_ctr |-> invalid_id_ctr]
        ELSE IF g.exc # "none" THEN [exc |-> g.exc, invalid_id_ctr |-> invalid_id_ctr]
        ELSE IF ~msg_meta.found
             THEN ResyncTrialCountPartial(data, msgs, buf_start_idx, buf_len, put_idx,
                                          g.idx, FALSE, invalid_id_ctr + 1)
        ELSE LET b == get_bytes_left_circ(g.idx, msg_meta.msg.num_arg_bytes,
                                          buf_len, put_idx, FALSE)
             IN  IF b.exc # "none"
                 THEN [exc |-> b.exc, invalid_id_ctr |-> invalid_id_ctr]
                 ELSE IF b.bytes_left < msg_meta.msg.num_arg_bytes
                 THEN [exc |-> "none", invalid_id_ctr |-> invalid_id_ctr + 1]
                 ELSE ResyncTrialCountPartial(data, msgs, buf_start_idx, buf_len,
                                              put_idx, b.idx, FALSE, invalid_id_ctr)

\* One trial: the while loop of lines 613-640, returning invalid_id_ctr.
RECURSIVE ResyncTrial(_, _, _, _, _, _, _, _)
ResyncTrial(data, msgs, buf_start_idx, buf_len, put_idx, i, first_get, invalid_id_ctr) ==
    LET g == get_data_circ(data, i, 1, buf_start_idx, buf_len, put_idx, first_get)
        msg_meta == get_metadata(msgs, g.value)
    IN  IF g.exc = "EOFError" THEN [exc |-> "none", invalid_id_ctr |-> invalid_id_ctr]
        ELSE IF g.exc # "none" THEN [exc |-> g.exc, invalid_id_ctr |-> invalid_id_ctr]
        ELSE IF ~msg_meta.found
             THEN ResyncTrial(data, msgs, buf_start_idx, buf_len, put_idx, g.idx,
                              FALSE, invalid_id_ctr + 1)
        ELSE LET b == get_bytes_left_circ(g.idx, msg_meta.msg.num_arg_bytes,
                                          buf_len, put_idx, FALSE)
             IN  IF b.exc # "none"
                 THEN [exc |-> b.exc, invalid_id_ctr |-> invalid_id_ctr]
                 ELSE IF b.bytes_left < msg_meta.msg.num_arg_bytes
                 THEN [exc |-> "none", invalid_id_ctr |-> invalid_id_ctr]
                 ELSE ResyncTrial(data, msgs, buf_start_idx, buf_len, put_idx,
                                  b.idx, FALSE, invalid_id_ctr)

\* start_idx of lines 603-605
TrialStartNoWrap(put_idx, offset, buf_len) ==
    IF put_idx + offset > buf_len THEN put_idx + offset - buf_len
    ELSE put_idx + offset

TrialStart(put_idx, offset, buf_len) ==
    IF put_idx + offset >= buf_len THEN put_idx + offset - buf_len
    ELSE put_idx + offset

\* first_get of line 608
TrialFirstGet(offset) == offset = 0

\* The for loop of lines 602-654 from trial `offset` on.
RECURSIVE ResyncLoop(_, _, _, _, _, _, _, _, _)
ResyncLoop(data, msgs, maxlen, buf_start_idx, buf_len, put_idx, offset, optimal_invalid_ids, optimal_start_idx) ==
    IF offset > maxlen
    THEN [exc |-> "none", start_idx |-> optimal_start_idx,
          invalid_ids |-> optimal_invalid_ids]
    ELSE LET start_idx == TrialStart(put_idx, offset, buf_len)
             t == ResyncTrial(data, msgs, buf_start_idx, buf_len, put_idx,
                              start_idx, TrialFirstGet(offset), 0)
         IN  IF t.exc # "none"
             THEN [exc |-> t.exc, start_idx |-> optimal_start_idx,
                   invalid_ids |-> optimal_invalid_ids]
             ELSE IF t.invalid_id_ctr < optimal_invalid_ids
             THEN ResyncLoop(data, msgs, maxlen, buf_start_idx, buf_len, put_idx,
                             offset + 1, t.invalid_id_ctr, start_idx)
             ELSE ResyncLoop(data, msgs, maxlen, buf_start_idx, buf_len, put_idx,
                             offset + 1, optimal_invalid_ids, optimal_start_idx)

get_optimal_start_idx(data, msgs, maxlen, buf_start_idx, buf_len, put_idx) ==
    ResyncLoop(data, msgs, maxlen, buf_start_idx, buf_len, put_idx, 0, buf_len, None)

-----------------------------------------------------------------------------
(* LwlPrinter.pretty_print: the streaming decode of lines 505-569 *)

\* The argument loop of lines 543-548.
RECURSIVE ReadArgs(_, _, _, _, _, _, _, _)
ReadArgs(data, arg_bytes, buf_start_idx, buf_len, put_idx, i, first_get, arg_values) ==
    IF arg_bytes = <<>> THEN [exc |-> "none", arg_values |-> arg_values, idx |-> i]
    ELSE LET g == get_data_circ(data, i, arg_bytes[1], buf_start_idx, buf_len,
                                put_idx, first_get)
         IN  IF g.exc # "none"
             THEN [exc |-> g.exc, arg_values |-> arg_values, idx |-> i]
             ELSE ReadArgs(data, Tail(arg_bytes), buf_start_idx, buf_len, put_idx,
                           g.idx, first_get, Append(arg_values, g.value))

\* The loop of lines 562-565: the bytes from i up to the put index.
RECURSIVE ReadUnused(_, _, _, _, _, _, _)
ReadUnused(data, buf_start_idx, buf_len, put_idx, i, first_get, unused_data) ==
    LET g == get_data_circ(data, i, 1, buf_start_idx, buf_len, put_idx, first_get)
    IN  IF g.exc = "EOFError" THEN [exc |-> "none", unused_data |-> unused_data]
        ELSE IF g.exc # "none" THEN [exc |-> g.exc, unused_data |-> unused_data]
        ELSE ReadUnused(data, buf_start_idx, buf_len, put_idx, g.idx, first_get,
                        Append(unused_data, g.value))

\* Lines 556-569, entered when EOFError ended the decode loop.
UnusedTailIfAny(data, buf_start_idx, buf_len, put_idx, id, id_idx, first_get, lines) ==
    IF id = None \/ id_idx = put_idx THEN [exc |-> "none", out |-> lines]
    ELSE LET u == ReadUnused(data, buf_start_idx, buf_len, put_idx, id_idx,
                             first_get, <<>>)
         IN  IF u.exc # "none" THEN [exc |-> u.exc, out |-> lines]
             ELSE [exc |-> "none",
                   out |-> Append(lines, Line("unused", "", u.unused_data))]

UnusedTail(data, buf_start_idx, buf_len, put_idx, id, id_idx, first_get, lines) ==
    IF id = None THEN [exc |-> "none", out |-> lines]
    ELSE LET u == ReadUnused(data, buf_start_idx, buf_len, put_idx, id_idx,
                             first_get, <<>>)
         IN  IF u.exc # "none" THEN [exc |-> u.exc, out |-> lines]
             ELSE [exc |-> "none",
                   out |-> Append(lines, Line("unused", "", u.unused_data))]

\* The decode loop printing the skipped-data line for every known id
RECURSIVE StreamDecodeAlwaysSkipped(_, _, _, _, _, _, _, _, _, _)
StreamDecodeAlwaysSkipped(data, msgs, buf_start_idx, buf_len, put_idx, i, first_get, id, skipped_data, lines) ==
    LET g == get_data_circ(data, i, 1, buf_start_idx, buf_len, put_idx, first_get)
        msg_meta == get_metadata(msgs, g.value)
    IN  IF g.exc = "EOFError"
        THEN UnusedTail(data, buf_start_idx, buf_len, put_idx, id, i, FALSE, lines)
        ELSE IF g.exc # "none" THEN [exc |-> g.exc, out |-> lines]
        ELSE IF ~msg_meta.found
             THEN StreamDecodeAlwaysSkipped(data, msgs, buf_start_idx, buf_len, put_idx, g.idx,
                               FALSE, g.value, Append(skipped_data, g.value), lines)
        ELSE LET lines1 == Append(lines, Line("skipped", "", skipped_data))
                 a == ReadArgs(data, msg_meta.msg.arg_bytes, buf_start_idx, buf_len,
                               put_idx, g.idx, FALSE, <<>>)
                 f == FormatMsg(msg_meta.msg.fmt, a.arg_values)
             IN  IF a.exc = "EOFError"
                 THEN UnusedTail(data, buf_start_idx, buf_len, put_idx, g.value, i,
                                 FALSE, lines1)
                 ELSE IF a.exc # "none" THEN [exc |-> a.exc, out |-> lines1]
                 ELSE IF f.exc # "none" THEN [exc |-> f.exc, out |-> lines1]
                 ELSE StreamDecodeAlwaysSkipped(data, msgs, buf_start_idx, buf_len, put_idx,
                                   a.idx, FALSE, None, <<>>,
                                   Append(lines1, Line("msg", f.text, <<>>)))

\* Lines 510-554.  id and skipped_data are the locals of the current pass of
\* the outer loop (None and <<>> when it starts).
RECURSIVE StreamDecode(_, _, _, _, _, _, _, _, _, _)
StreamDecode(data, msgs, buf_start_idx, buf_len, put_idx, i, first_get, id, skipped_data, lines) ==
    LET g == get_data_circ(data, i, 1, buf_start_idx, buf_len, put_idx, first_get)
        msg_meta == get_metadata(msgs, g.value)
    IN  IF g.exc = "EOFError"
        THEN UnusedTail(data, buf_start_idx, buf_len, put_idx, id, i, FALSE, lines)
        ELSE IF g.exc # "none" THEN [exc |-> g.exc, out |-> lines]
        ELSE IF ~msg_meta.found
             THEN StreamDecode(data, msgs, buf_start_idx, buf_len, put_idx, g.idx,
                               FALSE, g.value, Append(skipped_data, g.value), lines)
        ELSE LET lines1 == IF skipped_data # <<>>
                           THEN Append(lines, Line("skipped", "", skipped_data))
                           ELSE lines
                 a == ReadArgs(data, msg_meta.msg.arg_bytes, buf_start_idx, buf_len,
                               put_idx, g.idx, FALSE, <<>>)
                 f == FormatMsg(msg_meta.msg.fmt, a.arg_values)
             IN  IF a.exc = "EOFError"
                 THEN UnusedTail(data, buf_start_idx, buf_len, put_idx, g.value, i,
                                 FALSE, lines1)
                 ELSE IF a.exc # "none" THEN [exc |-> a.exc, out |-> lines1]
                 ELSE IF f.exc # "none" THEN [exc |-> f.exc, out |-> lines1]
                 ELSE StreamDecode(data, msgs, buf_start_idx, buf_len, put_idx,
                                   a.idx, FALSE, None, <<>>,
                                   Append(lines1, Line("msg", f.text, <<>>)))

\* Size of the section header plus buf_size and put_idx (lines 479-483)
LWL_HEADER_LEN == 16
\* Smallest LWL buffer accepted (line 485)
MinBufLen == 4

NoResync == [start_idx |-> None, invalid_ids |-> None]

\* The header checks of lines 498-503: the error printed, "" when accepted
LwlHeaderCheckOffByOne(section_len, buf_len, put_idx) ==
    IF buf_len + LWL_HEADER_LEN # section_len THEN "Invalid LWL buf_len"
    ELSE IF put_idx > buf_len THEN "Invalid lwl put_idx"
    ELSE ""

LwlHeaderCheck(section_len, buf_len, put_idx) ==
    IF buf_len + LWL_HEADER_LEN # section_len THEN "Invalid LWL buf_len"
    ELSE IF put_idx >= buf_len THEN "Invalid lwl put_idx"
    ELSE ""

\* LwlPrinter.pretty_print: [exc, out, rejected, resync]
LwlPrettyPrint(data, dlen, swab, msgs, maxlen, section_offset, section_len) ==
    LET banner == <<Line("banner", "LWL", <<>>)>>
        bl == get_data(data, dlen, swab, section_offset + 8, 4)
        pi == get_data(data, dlen, swab, section_offset + 12, 4)
        buf_len == NatOf(bl.value)
        put_idx == NatOf(pi.value)
        buf_start_idx == section_offset + LWL_HEADER_LEN
        header_error == LwlHeaderCheck(section_len, buf_len, put_idx)
        o == get_optimal_start_idx(data, msgs, maxlen, buf_start_idx, buf_len, put_idx)
        d == StreamDecode(data, msgs, buf_start_idx, buf_len, put_idx, o.start_idx,
                          TRUE, None, <<>>, banner)
        R(e, lines, rej, rs) == [exc |-> e, out |-> lines, rejected |-> rej, resync |-> rs]
    IN  IF section_len < LWL_HEADER_LEN + MinBufLen
        THEN R("none", Append(banner, Line("error", "Insufficient LWL buffer size", <<>>)),
               TRUE, NoResync)
        ELSE IF bl.eof \/ pi.eof THEN R("EOFError", banner, FALSE, NoResync)
        ELSE IF header_error # ""
        THEN R("none", Append(banner, Line("error", header_error, <<>>)), TRUE, NoResync)
        ELSE IF o.exc # "none" THEN R(o.exc, banner, FALSE, NoResync)
        ELSE R(d.exc, d.out, FALSE, [start_idx |-> o.start_idx, invalid_ids |-> o.invalid_ids])


-----------------------------------------------------------------------------
(* FaultData *)

FaultField(name, offset, num_bytes) ==
    [name |-> name, offset |-> offset, num_bytes |-> num_bytes]

StartsWith(str, prefix) ==
    Len(str) >= Len(prefix) /\ SubSeq(str, 1, Len(prefix)) = prefix

\* The condition of lines 350-351
Suppressed(name) ==
    StartsWith(name, "pad") \/ name \in {"magic", "num_section_bytes"}

\* add_fault_field taking only the names that are printed for max_name_len
add_fault_field_shown(flds, maxname, name, offset, num_bytes) ==
    [fields |-> Append(flds, FaultField(name, offset, num_bytes)),
     max_name_len |-> IF ~Suppressed(name) /\ Len(name) > maxname
                      THEN Len(name) ELSE maxname]

add_fault_field(flds, maxname, name, offset, num_bytes) ==
    [fields |-> Append(flds, FaultField(name, offset, num_bytes)),
     max_name_len |-> IF Len(name) > maxname THEN Len(name) ELSE maxname]

RECURSIVE Spaces(_)
Spaces(n) == IF n <= 0 THEN "" ELSE " " \o Spaces(n - 1)

\* '%*s' of line 356: the name right-aligned in a column of `width`
RightAlign(width, name) == Spaces(width - Len(name)) \o name

\* The loop of lines 349-357 over the fields from number k on.
RECURSIVE FaultLoop(_, _, _, _, _, _, _, _)
FaultLoop(data, dlen, swab, flds, maxname, section_offset, k, lines) ==
    IF k > Len(flds) THEN [exc |-> "none", out |-> lines]
    ELSE IF Suppressed(flds[k].name)
         THEN FaultLoop(data, dlen, swab, flds, maxname, section_offset, k + 1, lines)
    ELSE LET g == get_data(data, dlen, swab, section_offset + flds[k].offset,
                           flds[k].num_bytes)
         IN  IF g.eof THEN [exc |-> "EOFError", out |-> lines]
             ELSE FaultLoop(data, dlen, swab, flds, maxname, section_offset, k + 1,
                            Append(lines, Line("field",
                                               RightAlign(maxname, flds[k].name),
                                               g.value)))

FaultPrettyPrint(data, dlen, swab, flds, maxname, section_offset, section_len) ==
    FaultLoop(data, dlen, swab, flds, maxname, section_offset, 1,
              <<Line("banner", "Fault data", <<>>)>>)

-----------------------------------------------------------------------------
(* Data.process_data: one pass of the while loop of lines 148-182 *)

\* Line 159, `g_swab = not g_swab`.  process_data has no `global g_swab`, so
\* the assignment makes the name local to the function, and reading it there
\* raises UnboundLocalError before anything is assigned; the module global
\* that get_data reads is left as it was.
FlipSwabGlobal(swab) == [raised |-> FALSE, swab |-> ~swab]

FlipSwab(swab) == [raised |-> TRUE, swab |-> swab]

\* Size of a section header: magic and length (lines 149, 129-131)
SECTION_HEADER_LEN == 8

Step(p, i, lines, r, e, swab, nflips, disp) ==
    [pc |-> p, idx |-> i, out |-> lines, ret |-> r, exc |-> e, swab |-> swab,
     flips |-> nflips, dispatched |-> disp]

Dispatch(type, offset, len, rejected, e, lines, resync) ==
    [type |-> type, offset |-> offset, len |-> len, rejected |-> rejected,
     exc |-> e, out |-> lines, resync |-> resync]

\* Lines 165-182, with the byte order and the magic settled.
DispatchSection(data, dlen, swab, nflips, msgs, maxlen, flds, maxname, i, magic) ==
    LET section_type == magic_to_fault_type[magic]
        section_len == NatOf(get_data(data, dlen, swab, i + 4, 4).value)
        f == FaultPrettyPrint(data, dlen, swab, flds, maxname, i, section_len)
        l == LwlPrettyPrint(data, dlen, swab, msgs, maxlen, i, section_len)
        t == <<Line("banner", "End of fault data", <<>>)>>
        Done(lines, e, rejected, resync) ==
            Step(IF e = "none" THEN "process" ELSE "raised",
                 IF e = "none" THEN i + section_len ELSE i,
                 lines, "none", e, swab, nflips,
                 <<Dispatch(section_type, i, section_len, rejected, e, lines, resync)>>)
    IN  IF i + section_len > dlen
        THEN Step("returned", i,
                  <<Line("error", "Insufficient bytes for a section header", <<>>)>>,
                  "False", "none", swab, nflips, <<>>)
        ELSE IF section_type = SECTION_TYPE_FAULT
        THEN Done(f.out, f.exc, FALSE, NoResync)
        ELSE IF section_type = SECTION_TYPE_LWL
        THEN Done(l.out, l.exc, l.rejected, l.resync)
        ELSE Done(t, "none", FALSE, NoResync)

\* Lines 149-164, then the dispatch.
SectionStep(data, dlen, swab, msgs, maxlen, flds, maxname, i) ==
    LET magic == get_data(data, dlen, swab, i, 4).value
        flip == FlipSwab(swab)
        magic2 == get_data(data, dlen, flip.swab, i, 4).value
    IN  IF i + SECTION_HEADER_LEN > dlen
        THEN Step("returned", i,
                  <<Line("error", "Insufficient bytes for a section header", <<>>)>>,
                  "False", "none", swab, 0, <<>>)
        ELSE IF magic \in DOMAIN magic_to_fault_type
        THEN DispatchSection(data, dlen, swab, 0, msgs, maxlen, flds, maxname, i, magic)
        ELSE IF flip.raised
        THEN Step("raised", i, <<>>, "none", "UnboundLocalError", swab, 0, <<>>)
        ELSE IF magic2 \notin DOMAIN magic_to_fault_type
        THEN Step("returned", i,
                  <<Line("error", "Can not determine section type", <<>>)>>,
                  "False", "none", flip.swab, 1, <<>>)
        ELSE DispatchSection(data, dlen, flip.swab, 1, msgs, maxlen, flds, maxname,
                             i, magic2)


-----------------------------------------------------------------------------
(* Inputs: what the source scan finds and what the device wrote *)

MsgIds == {1, 2}

\* LWL statements the scanned sources may hold: format pieces and arg lengths
Descs ==
    { [fmt |-> <<"tick">>, arg_bytes |-> <<>>],
      [fmt |-> <<"val=", "%d">>, arg_bytes |-> <<4>>],
      [fmt |-> <<"ab=", "%d", ",", "%d">>, arg_bytes |-> <<1, 2>>],
      [fmt |-> <<"bad=", "%d">>, arg_bytes |-> <<>>] }

\* struct fault_data declarations the scanned sources may hold: the name and
\* size of each //@fault_data line (lines 709-716)
FaultStructs ==
    { <<<<"magic", 4>>, <<"num_section_bytes", 4>>, <<"code", 4>>>>,
      <<<<"magic", 4>>, <<"num_section_bytes", 4>>, <<"pad1", 2>>,
        <<"fault_type", 2>>, <<"code", 4>>>> }

\* A 32-bit field holding n < 2^16, as the device writes it
Enc32(n, be) ==
    IF be THEN <<0, 0, n \div 256, n % 256>> ELSE <<n % 256, n \div 256, 0, 0>>

EncMagic(magic, be) == IF be THEN magic ELSE Reverse(magic)

Section(magic, be, len, payload) == EncMagic(magic, be) \o Enc32(len, be) \o payload

LogSection(be, buf_len, put_idx, buf) ==
    Section(MOD_MAGIC_LWL, be, LWL_HEADER_LEN + Len(buf),
            Enc32(buf_len, be) \o Enc32(put_idx, be) \o buf)

\* Bytes of the buffers: no id of a statement (0) and the ids of MsgIds
BufBytes == {0, 1, 2}

RECURSIVE SeqsOfLen(_, _)
SeqsOfLen(S, n) ==
    IF n = 0 THEN {<<>>}
    ELSE {Append(q, x) : q \in SeqsOfLen(S, n - 1), x \in S}

Buffers == UNION {SeqsOfLen(BufBytes, n) : n \in MinBufLen..MaxBufLen}

\* Blobs of one well-framed little-endian LWL section with a valid header
LwlBlobs ==
    {LogSection(FALSE, Len(buf), p, buf) : <<buf, p>> \in
        {<<b, q>> \in Buffers \X (0..MaxBufLen - 1) : q < Len(b)}}

RECURSIVE Ones(_)
Ones(n) == IF n = 0 THEN <<>> ELSE <<1>> \o Ones(n - 1)

\* Blobs of one well-framed LWL section whose header declares any buffer
\* length and put index, over a buffer of any length
HdrBlobs ==
    {LogSection(FALSE, h[1], h[2], Ones(h[3])) :
        h \in (0..MaxBufLen + 1) \X (0..MaxBufLen + 1) \X (0..MaxBufLen + 1)}

\* Sections of the framing blobs
FramePool ==
    {Section(MOD_MAGIC_TRAILER, be, SECTION_HEADER_LEN, <<>>) : be \in BOOLEAN}
    \cup {Section(MOD_MAGIC_TRAILER, FALSE, n, <<>>) : n \in {0, 16}}
    \cup {Zeros(8), Zeros(3)}
    \cup {Section(MOD_MAGIC_FAULT, FALSE, 12, Enc32(42, FALSE)),
          Section(MOD_MAGIC_FAULT, FALSE, SECTION_HEADER_LEN, <<>>)}
    \cup {LogSection(FALSE, 5, p, <<1, 0, 0, 0, 7>>) : p \in {0, 1}}
    \cup {LogSection(FALSE, 4, 4, <<1, 1, 1, 1>>),
          LogSection(FALSE, 2, 0, <<1, 1>>)}

RECURSIVE FrameBlobs(_)
FrameBlobs(n) ==
    IF n = 0 THEN {<<>>}
    ELSE LET prev == FrameBlobs(n - 1)
         IN  prev \cup {b \o sec : b \in prev, sec \in FramePool}

-----------------------------------------------------------------------------
(* The program *)

\* lwl.py has not been started
NoDecode == [pc |-> "none"]

NoCall == [op |-> "none", id |-> 0, fmt |-> <<>>, arg_bytes |-> <<>>, ret |-> TRUE]

Init ==
    /\ lwl_msgs = <<>>
    /\ max_msg_len = 0
    /\ fields = <<>>
    /\ max_name_len = 0
    /\ g_swab = FALSE
    /\ data_array = <<>>
    /\ data_len = 0
    /\ pc = "parse"
    /\ idx = 0
    /\ out = <<>>
    /\ ret = "none"
    /\ exc = "none"
    /\ call = NoCall
    /\ flips = 0
    /\ dispatched = <<>>
    /\ decode = NoDecode

\* parse_source_file, lines 855-860: one LWL statement is added
AddLwlMsg ==
    /\ pc = "parse"
    /\ \E id \in MsgIds, d \in Descs :
          LET r == add_lwl_msg(lwl_msgs, max_msg_len, id, d.fmt, d.arg_bytes)
          IN  /\ lwl_msgs' = r.lwl_msgs
              /\ max_msg_len' = r.max_msg_len
              /\ call' = [op |-> "add_lwl_msg", id |-> id, fmt |-> d.fmt,
                          arg_bytes |-> d.arg_bytes, ret |-> r.ret]
    /\ UNCHANGED <<fields, max_name_len, g_swab, data_array, data_len, pc, idx,
                   out, ret, exc, flips, dispatched, decode>>

\* parse_source_file, lines 753-760, over the lines of one struct fault_data
RECURSIVE ParseFaultLines(_, _, _)
ParseFaultLines(struct, fault_field_offset, acc) ==
    IF struct = <<>> THEN acc
    ELSE ParseFaultLines(Tail(struct), fault_field_offset + struct[1][2],
                         add_fault_field(acc.fields, acc.max_name_len, struct[1][1],
                                         fault_field_offset, struct[1][2]))

ParseFaultData ==
    /\ pc = "parse"
    /\ fields = <<>>
    /\ \E struct \in FaultStructs :
          \E r \in {ParseFaultLines(struct, 0, [fields |-> fields,
                                                max_name_len |-> max_name_len])} :
              /\ fields' = r.fields
              /\ max_name_len' = r.max_name_len
    /\ call' = NoCall
    /\ UNCHANGED <<lwl_msgs, max_msg_len, g_swab, data_array, data_len, pc, idx,
                   out, ret, exc, flips, dispatched, decode>>

\* read_data_file, then the entry of process_data (lines 144-146)
ReadDataFile ==
    /\ pc = "parse"
    /\ \E blob \in FrameBlobs(MaxSections) :
          /\ data_array' = blob
          /\ data_len' = Len(blob)
    /\ pc' = "process"
    /\ idx' = 0
    /\ call' = NoCall
    /\ UNCHANGED <<lwl_msgs, max_msg_len, fields, max_name_len, g_swab, out, ret,
                   exc, flips, dispatched, decode>>

\* One pass of the while loop of process_data
ProcessSection ==
    /\ pc = "process"
    /\ idx < data_len
    /\ Len(dispatched) < MaxPasses
    /\ \E s \in {SectionStep(data_array, data_len, g_swab, lwl_msgs, max_msg_len,
                            fields, max_name_len, idx)} :
           /\ pc' = s.pc
           /\ idx' = s.idx
           /\ out' = out \o s.out
           /\ ret' = s.ret
           /\ exc' = s.exc
           /\ g_swab' = s.swab
           /\ flips' = flips + s.flips
           /\ dispatched' = dispatched \o s.dispatched
    /\ call' = NoCall
    /\ UNCHANGED <<lwl_msgs, max_msg_len, fields, max_name_len, data_array, data_len,
                   decode>>

\* The loop condition fails: return True (line 184)
ProcessReturn ==
    /\ pc = "process"
    /\ idx >= data_len
    /\ pc' = "returned"
    /\ ret' = "True"
    /\ call' = NoCall
    /\ UNCHANGED <<lwl_msgs, max_msg_len, fields, max_name_len, g_swab, data_array,
                   data_len, idx, out, exc, flips, dispatched, decode>>

Next ==
    \/ AddLwlMsg
    \/ ParseFaultData
    \/ ReadDataFile
    \/ ProcessSection
    \/ ProcessReturn

Spec == Init /\ [][Next]_vars

-----------------------------------------------------------------------------
(* The LWL decoder alone: every catalog the scan can build, every buffer    *)
(* and put index, in one well-framed little-endian LWL section.             *)

RECURSIVE BuildCatalog(_, _, _)
BuildCatalog(assign, ids, acc) ==
    IF ids = {} THEN acc
    ELSE LET id == CHOOSE x \in ids : \A y \in ids : x <= y
             r == add_lwl_msg(acc.lwl_msgs, acc.max_msg_len, id,
                              assign[id].fmt, assign[id].arg_bytes)
         IN  BuildCatalog(assign, ids \ {id}, r)

Catalogs ==
    {BuildCatalog(a, DOMAIN a, [ret |-> TRUE, lwl_msgs |-> <<>>, max_msg_len |-> 0]) :
        a \in UNION {[S -> Descs] : S \in SUBSET MsgIds}}

InitLwl ==
    /\ \E c \in Catalogs :
          /\ lwl_msgs = c.lwl_msgs
          /\ max_msg_len = c.max_msg_len
    /\ fields = <<>>
    /\ max_name_len = 0
    /\ g_swab = FALSE
    /\ data_array \in LwlBlobs \cup HdrBlobs
    /\ data_len = Len(data_array)
    /\ pc = "process"
    /\ idx = 0
    /\ out = <<>>
    /\ ret = "none"
    /\ exc = "none"
    /\ call = NoCall
    /\ flips = 0
    /\ dispatched = <<>>
    /\ decode = NoDecode

NextLwl == ProcessSection \/ ProcessReturn

SpecLwl == InitLwl /\ [][NextLwl]_vars

-----------------------------------------------------------------------------
(* lwl.py: decode_data_file over a dump file of a declared size, a put      *)
(* index and hex data. Every pass of a loop of get_optimal_start_idx and of *)
(* print_data is one step.                                                  *)

\* get_data_bytes, lines 276-289: little endian, wrapping at len(data)
RECURSIVE get_data_bytes_loop(_, _, _, _, _, _, _)
get_data_bytes_loop(data, i, n, start_idx, first_get, d, factor) ==
    IF n = 0 THEN [exc |-> "none", value |-> d, idx |-> i]
    ELSE IF i = start_idx /\ ~first_get
    THEN [exc |-> "EOFError", value |-> 0, idx |-> i]
    ELSE get_data_bytes_loop(data, IF i + 1 >= Len(data) THEN 0 ELSE i + 1, n - 1,
                             start_idx, first_get, d + data[i + 1] * factor,
                             factor * 256)

\* get_data_bytes: an idx of None fails in the formatting of lines 271-272,
\* an idx past the data raises IndexError (lines 273-274)
get_data_bytes(data, i, num_bytes, start_idx, first_get) ==
    IF i = None THEN [exc |-> "TypeError", value |-> 0, idx |-> i]
    ELSE IF i >= Len(data) THEN [exc |-> "IndexError", value |-> 0, idx |-> i]
    ELSE get_data_bytes_loop(data, i, num_bytes, start_idx, first_get, 0, 1)

\* invalid_id_ctr += 1, followed up to len(data): the counter is only
\* compared with min_invalid_ids, which never exceeds len(data)
CountInvalid(ctr, data) == IF ctr < Len(data) THEN ctr + 1 ELSE ctr

\* The catalogs lwl.py decodes with: main (line 557) decodes only when the
\* scan found no error, and a statement whose format slots and arg lengths
\* differ is an error (lines 225-230)
PyCatalogs ==
    {c \in Catalogs : \A id \in DOMAIN c.lwl_msgs :
                          NumSlots(c.lwl_msgs[id].fmt) = Len(c.lwl_msgs[id].arg_bytes)}

PyData == UNION {SeqsOfLen(BufBytes, n) : n \in 0..MaxDataLen}

InitPy ==
    /\ \E c \in PyCatalogs :
          /\ lwl_msgs = c.lwl_msgs
          /\ max_msg_len = c.max_msg_len
    /\ fields = <<>>
    /\ max_name_len = 0
    /\ g_swab = FALSE
    /\ data_array = <<>>
    /\ data_len = 0
    /\ pc = "parse"
    /\ idx = 0
    /\ out = <<>>
    /\ ret = "none"
    /\ exc = "none"
    /\ call = NoCall
    /\ flips = 0
    /\ dispatched = <<>>
    /\ decode = [pc |-> "file"]

NotPy == <<lwl_msgs, max_msg_len, fields, max_name_len, g_swab, data_array,
           data_len, pc, idx, out, ret, exc, call, flips, dispatched>>

\* decode_data_file, lines 505-519, and the entry of get_optimal_start_idx
\* (lines 316-318): odd_hex is an odd number of hex characters
DecodeDataFile ==
    /\ decode.pc = "file"
    /\ \E buf_size \in {None} \cup 0..MaxBufSize, data \in PyData, odd_hex \in BOOLEAN :
       \E put_idx \in {None} \cup 0..MaxBufSize :
          decode' =
              IF put_idx = None \/ buf_size = None \/ put_idx >= buf_size \/ odd_hex
              THEN [pc |-> "returned", exc |-> "none"]
              ELSE [pc |-> "resync", exc |-> "none", data |-> data,
                    put_idx |-> put_idx, offset |-> 0, start_idx |-> None,
                    idx |-> None, first_get |-> TRUE, invalid_id_ctr |-> 0,
                    min_invalid_ids |-> Len(data), optimal_start_idx |-> None,
                    id |-> None, id_idx |-> None, unused_data |-> <<>>,
                    out |-> <<>>]
    /\ UNCHANGED NotPy

\* The head of the for loop of get_optimal_start_idx, lines 319-325
ResyncOffset ==
    /\ decode.pc = "resync"
    /\ decode.offset < max_msg_len
    /\ LET s == decode.put_idx + decode.offset
           start_idx == IF s >= Len(decode.data) THEN s - Len(decode.data) ELSE s
       IN  decode' = [decode EXCEPT !.pc = "trial", !.start_idx = start_idx,
                                    !.idx = start_idx, !.first_get = TRUE,
                                    !.invalid_id_ctr = 0]
    /\ UNCHANGED NotPy

\* One pass of the while loop of a trial, lines 327-349; on the break the
\* comparison of lines 351-355 and the next offset
TrialStep ==
    /\ decode.pc = "trial"
    /\ LET g == get_data_bytes(decode.data, decode.idx, 1, decode.put_idx,
                               decode.first_get)
           m == get_metadata(lwl_msgs, g.value)
           a == get_data_bytes(decode.data, g.idx, m.msg.num_arg_bytes,
                               decode.put_idx, FALSE)
           better == decode.invalid_id_ctr < decode.min_invalid_ids
       IN  decode' =
             IF g.exc = "EOFError"
             THEN [decode EXCEPT !.pc = "resync", !.offset = @ + 1,
                      !.min_invalid_ids = IF better THEN decode.invalid_id_ctr ELSE @,
                      !.optimal_start_idx = IF better THEN decode.start_idx ELSE @]
             ELSE IF g.exc # "none" THEN [decode EXCEPT !.pc = "raised", !.exc = g.exc]
             ELSE IF ~m.found
             THEN [decode EXCEPT !.idx = g.idx, !.first_get = FALSE,
                                 !.invalid_id_ctr = CountInvalid(@, decode.data)]
             ELSE IF a.exc = "EOFError"
             THEN [decode EXCEPT !.idx = g.idx, !.first_get = FALSE]
             ELSE IF a.exc # "none" THEN [decode EXCEPT !.pc = "raised", !.exc = a.exc]
             ELSE [decode EXCEPT !.idx = a.idx, !.first_get = FALSE]
    /\ UNCHANGED NotPy

\* The for loop is over: return optimal_start_idx (line 357), and the entry
\* of print_data (lines 377-393)
ResyncReturn ==
    /\ decode.pc = "resync"
    /\ decode.offset >= max_msg_len
    /\ decode' = [decode EXCEPT !.pc = "print", !.start_idx = decode.optimal_start_idx,
                                !.idx = decode.optimal_start_idx, !.first_get = TRUE,
                                !.id = None, !.id_idx = None]
    /\ UNCHANGED NotPy

\* The for loop over the argument lengths, lines 410-414
RECURSIVE PyReadArgs(_, _, _, _, _)
PyReadArgs(data, arg_bytes, put_idx, i, arg_values) ==
    IF arg_bytes = <<>> THEN [exc |-> "none", idx |-> i, arg_values |-> arg_values]
    ELSE LET g == get_data_bytes(data, i, arg_bytes[1], put_idx, FALSE)
         IN  IF g.exc # "none" THEN [exc |-> g.exc, idx |-> i, arg_values |-> arg_values]
             ELSE PyReadArgs(data, Tail(arg_bytes), put_idx, g.idx,
                             Append(arg_values, g.value))

\* The except clause of lines 419-420 and the test of lines 422-427; id_idx
\* is the index of the id read last begun (line 396)
PyEndOfData(id, id_idx) ==
    IF id # None
    THEN [decode EXCEPT !.pc = "unused", !.id = id, !.id_idx = id_idx,
                        !.idx = id_idx, !.first_get = FALSE, !.unused_data = <<>>]
    ELSE [decode EXCEPT !.pc = "done"]

\* One pass of the id loop of print_data, lines 395-406, with, for a known
\* id, the arguments and the print of lines 409-416 and the head of the
\* outer loop (lines 390-393)
PrintStep ==
    /\ decode.pc = "print"
    /\ LET g == get_data_bytes(decode.data, decode.idx, 1, decode.put_idx,
                               decode.first_get)
           m == get_metadata(lwl_msgs, g.value)
           a == PyReadArgs(decode.data, m.msg.arg_bytes, decode.put_idx, g.idx, <<>>)
           f == FormatMsg(m.msg.fmt, a.arg_values)
       IN  decode' =
             IF g.exc = "EOFError" THEN PyEndOfData(decode.id, decode.idx)
             ELSE IF g.exc # "none" THEN [decode EXCEPT !.pc = "raised", !.exc = g.exc]
             ELSE IF ~m.found
             THEN [decode EXCEPT !.idx = g.idx, !.first_get = FALSE,
                                 !.id = g.value, !.id_idx = None]
             ELSE IF a.exc = "EOFError" THEN PyEndOfData(g.value, decode.idx)
             ELSE IF a.exc # "none" THEN [decode EXCEPT !.pc = "raised", !.exc = a.exc]
             ELSE IF f.exc # "none" THEN [decode EXCEPT !.pc = "raised", !.exc = f.exc]
             ELSE [decode EXCEPT !.idx = a.idx, !.first_get = FALSE, !.id = None,
                                 !.id_idx = None, !.out = Append(@, Line("msg", f.text, <<>>))]
    /\ UNCHANGED NotPy

\* One pass of the loop over the unused data, lines 428-435
UnusedStep ==
    /\ decode.pc = "unused"
    /\ LET g == get_data_bytes(decode.data, decode.idx, 1, decode.put_idx,
                               decode.first_get)
       IN  decode' =
             IF g.exc = "EOFError"
             THEN [decode EXCEPT !.pc = "done",
                                 !.out = Append(@, Line("unused", "", decode.unused_data))]
             ELSE IF g.exc # "none" THEN [decode EXCEPT !.pc = "raised", !.exc = g.exc]
             ELSE [decode EXCEPT !.idx = g.idx,
                                 !.unused_data = Append(@, g.value)]
    /\ UNCHANGED NotPy

NextPy ==
    \/ DecodeDataFile
    \/ ResyncOffset
    \/ TrialStep
    \/ ResyncReturn
    \/ PrintStep
    \/ UnusedStep

\* lwl.py runs as one thread of one process: a step that can be taken is taken
SpecLwlPy == InitPy /\ [][NextPy]_vars /\ WF_vars(NextPy)


-----------------------------------------------------------------------------
(* Properties *)

Stopped == pc \in {"returned", "raised"}

IsLwl(d) == d.type = SECTION_TYPE_LWL

\* What a decoder printed after its banner
Decoded(d) == SubSeq(d.out, 2, Len(d.out))

Msg(text) == Line("msg", text, <<>>)

\* buf_len and put_idx as pretty_print reads them from the section of d
HdrBufLen(d) == NatOf(get_data(data_array, data_len, g_swab, d.offset + 8, 4).value)
HdrPutIdx(d) == NatOf(get_data(data_array, data_len, g_swab, d.offset + 12, 4).value)

\* Where the framer went on after the k-th dispatched section
NextOffset(k) == IF k < Len(dispatched) THEN dispatched[k + 1].offset ELSE idx

\* The magic at the framing offset is known under neither byte order
UnknownBoth ==
    /\ idx + SECTION_HEADER_LEN <= data_len
    /\ \A sw \in BOOLEAN :
          get_data(data_array, data_len, sw, idx, 4).value
              \notin DOMAIN magic_to_fault_type

LastLineIsError ==
    out # <<>> /\ out[Len(out)].k = "error"

\* C1 (as claimed): every LWL section whose header passes validation is
\* decoded without an exception, whatever the buffer and the catalog.
C1_NoAbort ==
    \A k \in 1..Len(dispatched) :
        (IsLwl(dispatched[k]) /\ ~dispatched[k].rejected) => dispatched[k].exc = "none"

BigEndianTrailer == Section(MOD_MAGIC_TRAILER, TRUE, SECTION_HEADER_LEN, <<>>)

\* C3 (as claimed): a blob whose first section needs a flip and whose second
\* section is in the same (big-endian) order has both sections decoded.
C3_FlippedBlobDecodes ==
    (data_array = BigEndianTrailer \o BigEndianTrailer /\ Stopped)
        => /\ pc = "returned"
           /\ ret = "True"
           /\ Len(dispatched) = 2
           /\ \A k \in 1..2 : dispatched[k].type = SECTION_TYPE_TRAILER

\* C4 (as claimed): when the magic at the framing offset is known under
\* neither byte order, process_data prints the error and returns False.
C4_UnknownMagicReported ==
    (Stopped /\ UnknownBoth)
        => /\ pc = "returned"
           /\ ret = "False"
           /\ LastLineIsError
           /\ out[Len(out)].text = "Can not determine section type"

\* C5 (as claimed): no section whose declared length is below 8, or reaches
\* past the end of the blob, is handed to a decoder.
C5_BadLengthNotDispatched ==
    \A k \in 1..Len(dispatched) :
        /\ dispatched[k].len >= SECTION_HEADER_LEN
        /\ dispatched[k].offset + dispatched[k].len <= data_len

\* C6 (as claimed): process_data returns True exactly when the offset reached
\* the blob length, and when it stops short of it, it has printed an error
\* and returns False.
C6_SuccessIffConsumed ==
    /\ pc = "returned" => (ret = "True" <=> idx = data_len)
    /\ (Stopped /\ idx < data_len) => (pc = "returned" /\ ret = "False" /\ LastLineIsError)

\* C7 (as claimed): an LWL section is rejected exactly when buf_len + 16
\* differs from the section length or put_idx >= buf_len.
C7_RejectedIffHeaderInvalid ==
    \A k \in 1..Len(dispatched) :
        IsLwl(dispatched[k]) =>
            (dispatched[k].rejected <=>
                (\/ HdrBufLen(dispatched[k]) + LWL_HEADER_LEN # dispatched[k].len
                 \/ HdrPutIdx(dispatched[k]) >= HdrBufLen(dispatched[k])))

\* C7 (amended): an LWL section is rejected exactly when its length is below
\* 20, or buf_len + 16 differs from the section length, or put_idx >= buf_len;
\* a rejected section prints its error and no decoded line, and the framer
\* goes on at offset + section length.
C7_RejectedIffInvalidOrShort ==
    \A k \in 1..Len(dispatched) :
        IsLwl(dispatched[k]) =>
            /\ dispatched[k].rejected <=>
                  (\/ dispatched[k].len < LWL_HEADER_LEN + MinBufLen
                   \/ HdrBufLen(dispatched[k]) + LWL_HEADER_LEN # dispatched[k].len
                   \/ HdrPutIdx(dispatched[k]) >= HdrBufLen(dispatched[k]))
            /\ dispatched[k].rejected =>
                  /\ dispatched[k].exc = "none"
                  /\ Len(Decoded(dispatched[k])) = 1
                  /\ Decoded(dispatched[k])[1].k = "error"
                  /\ NextOffset(k) = dispatched[k].offset + dispatched[k].len

\* C7 witness: a section with a consistent header (buf_len + 16 = length,
\* put_idx < buf_len) was rejected for being shorter than 20 bytes.
C7_Witness ==
    \E k \in 1..Len(dispatched) :
        /\ IsLwl(dispatched[k])
        /\ dispatched[k].rejected
        /\ dispatched[k].len < LWL_HEADER_LEN + MinBufLen
        /\ HdrBufLen(dispatched[k]) + LWL_HEADER_LEN = dispatched[k].len
        /\ HdrPutIdx(dispatched[k]) < HdrBufLen(dispatched[k])
        /\ pc = "process"

\* C8: add_lwl_msg with an id already in the catalog returns False and leaves
\* lwl_msgs and max_msg_len as they were, and no step ever changes what
\* get_metadata returns for an id already present.
C8_DuplicateRejected ==
    [][ /\ \A id \in DOMAIN lwl_msgs :
              get_metadata(lwl_msgs', id) = get_metadata(lwl_msgs, id)
        /\ (call'.op = "add_lwl_msg" /\ call'.id \in DOMAIN lwl_msgs)
              => /\ call'.ret = FALSE
                 /\ lwl_msgs' = lwl_msgs
                 /\ max_msg_len' = max_msg_len ]_vars

\* C8 witness: a descriptor differing from the one held for its id was
\* rejected, and the one inserted first is still returned.
C8_Witness ==
    /\ call.op = "add_lwl_msg"
    /\ call.ret = FALSE
    /\ get_metadata(lwl_msgs, call.id).found
    /\ get_metadata(lwl_msgs, call.id).msg # LwlMsg(call.fmt, call.arg_bytes)

\* The catalog and the buffer of the two worked examples
ExampleCatalog ==
    (1 :> LwlMsg(<<"tick">>, <<>>)) @@ (2 :> LwlMsg(<<"val=", "%d">>, <<4>>))

ExampleDone(put_idx) ==
    /\ Stopped
    /\ lwl_msgs = ExampleCatalog
    /\ data_array = LogSection(FALSE, 5, put_idx, <<1, 0, 0, 0, 7>>)

C10_ValThenTick ==
    ExampleDone(1) =>
        /\ Len(dispatched) = 1
        /\ dispatched[1].resync = [start_idx |-> 1, invalid_ids |-> 0]
        /\ Decoded(dispatched[1]) = <<Msg("val=7"), Msg("tick")>>

\* C10 (amended): with the example catalog, buffer 01 00 00 00 07 and
\* put_idx 1 the resync selects start index 0 with 0 invalid ids and the
\* decode prints the one line "tick" and no annotation.
C10_StartZeroTick ==
    ExampleDone(1) =>
        /\ ret = "True"
        /\ Len(dispatched) = 1
        /\ dispatched[1].exc = "none"
        /\ dispatched[1].resync = [start_idx |-> 0, invalid_ids |-> 0]
        /\ Decoded(dispatched[1]) = <<Msg("tick")>>

C10_Witness == ExampleDone(1) /\ Len(dispatched) = 1

-----------------------------------------------------------------------------
(* The circular buffer read as a plain sequence *)

\* The LWL sections that passed the header checks and reached the resync
Accepted == {k \in 1..Len(dispatched) : IsLwl(dispatched[k]) /\ ~dispatched[k].rejected}

\* The buffer of the section of d
BufOf(d) == SubSeq(data_array, d.offset + LWL_HEADER_LEN + 1, d.offset + d.len)

\* The bytes met from index s round to the put index; when s is the put
\* index, the whole buffer if the first read is permitted, else nothing
Window(buf, s, put_idx, full) ==
    LET n == IF s = put_idx THEN (IF full THEN Len(buf) ELSE 0)
             ELSE (put_idx - s + Len(buf)) % Len(buf)
    IN  [j \in 1..n |-> buf[((s + j - 1) % Len(buf)) + 1]]

\* Invalid ids of a walk over the bytes L: an unknown id counts one and the
\* walk resumes at the next byte, a known id with all its argument bytes
\* counts nothing and is stepped over, a known id with too few bytes ends it
RECURSIVE LinearCount(_, _)
LinearCount(msgs, L) ==
    IF L = <<>> THEN 0
    ELSE IF L[1] \notin DOMAIN msgs THEN 1 + LinearCount(msgs, Tail(L))
    ELSE IF Len(L) - 1 < msgs[L[1]].num_arg_bytes THEN 0
    ELSE LinearCount(msgs, SubSeq(L, msgs[L[1]].num_arg_bytes + 2, Len(L)))

\* The count of trial t of the section of d when the candidate is
\* (put_idx + t) mod buf_len and the first read is always permitted
BruteCount(d, t) ==
    LinearCount(lwl_msgs, Window(BufOf(d), (HdrPutIdx(d) + t) % HdrBufLen(d),
                                 HdrPutIdx(d), TRUE))

\* The smallest trial offset whose brute-force count is the minimum
BruteBest(d) ==
    CHOOSE t \in 0..max_msg_len :
        /\ \A u \in 0..max_msg_len : BruteCount(d, t) <= BruteCount(d, u)
        /\ \A u \in 0..(t - 1) : BruteCount(d, u) > BruteCount(d, t)

\* C11 (as claimed): the start index returned by get_optimal_start_idx is
\* (put_idx + t) mod buf_len for the smallest trial offset t whose invalid-id
\* count, recomputed by brute force, is the minimum over all trials.
C11_StartIsBruteMinimum ==
    \A k \in Accepted :
        /\ dispatched[k].resync # NoResync
        /\ dispatched[k].resync.start_idx =
              (HdrPutIdx(dispatched[k]) + BruteBest(dispatched[k])) % HdrBufLen(dispatched[k])

-----------------------------------------------------------------------------
(* The decode of a plain sequence of bytes, message by message *)

RECURSIVE Pow256(_)
Pow256(n) == IF n = 0 THEN 1 ELSE 256 * Pow256(n - 1)

\* The number whose most significant byte is the first byte of s
BigEndian(s) == SumSeq([j \in 1..Len(s) |-> s[j] * Pow256(Len(s) - j)])

\* The values of arguments of the given widths laid out one after another in L
RECURSIVE ArgValues(_, _)
ArgValues(widths, L) ==
    IF widths = <<>> THEN <<>>
    ELSE <<BigEndian(SubSeq(L, 1, widths[1]))>>
             \o ArgValues(Tail(widths), SubSeq(L, widths[1] + 1, Len(L)))

\* The lines of the messages found in L: the unknown bytes before a known id
\* as a skipped line, then the message.  The walk ends at the end of L, at a
\* known id with too few bytes left (partial holds the bytes from that id
\* on) or at a descriptor whose format does not fit its arguments (mismatch).
RECURSIVE RefDecode(_, _, _, _)
RefDecode(msgs, L, pending, lines) ==
    IF L = <<>>
    THEN [lines |-> lines, partial |-> <<>>, pending |-> pending, mismatch |-> FALSE]
    ELSE IF L[1] \notin DOMAIN msgs
    THEN RefDecode(msgs, Tail(L), Append(pending, L[1]), lines)
    ELSE LET m == msgs[L[1]]
             lines1 == IF pending # <<>>
                       THEN Append(lines, Line("skipped", "", pending))
                       ELSE lines
         IN  IF Len(L) - 1 < m.num_arg_bytes
             THEN [lines |-> lines1, partial |-> L, pending |-> <<>>, mismatch |-> FALSE]
             ELSE IF NumSlots(m.fmt) # Len(m.arg_bytes)
             THEN [lines |-> lines1, partial |-> <<>>, pending |-> <<>>, mismatch |-> TRUE]
             ELSE RefDecode(msgs, SubSeq(L, m.num_arg_bytes + 2, Len(L)), <<>>,
                            Append(lines1,
                                   Msg(Render(m.fmt, ArgValues(m.arg_bytes, Tail(L))))))

\* The accepted sections whose resync returned an index of the buffer
Resynced ==
    {k \in Accepted : /\ dispatched[k].resync # NoResync
                      /\ dispatched[k].resync.start_idx \in 0..(HdrBufLen(dispatched[k]) - 1)}

\* The walk over what the streaming decode of the section of d has to read
RefOf(d) ==
    RefDecode(lwl_msgs, Window(BufOf(d), d.resync.start_idx, HdrPutIdx(d), TRUE),
              <<>>, <<>>)

IsMsg(l) == l.k = "msg"

\* The argument widths of the LWL statements
ArgWidths == UNION {{d.arg_bytes[j] : j \in DOMAIN d.arg_bytes} : d \in Descs}

\* C12: every argument value of a decoded message is the big-endian
\* composition of its bytes (first byte read most significant): a circular
\* read of n bytes that succeeds returns that number, and the message lines
\* printed for a section are those of its bytes read big-endian.  The byte
\* order flag is no input of the circular read.
C12_ArgsBigEndian ==
    \A k \in Resynced :
        LET d == dispatched[k]
            buf == BufOf(d)
        IN  /\ \A i \in 0..(Len(buf) - 1), n \in ArgWidths :
                  LET g == get_data_circ(data_array, i, n, d.offset + LWL_HEADER_LEN,
                                         Len(buf), HdrPutIdx(d), TRUE)
                  IN  g.exc = "none" =>
                          g.value = BigEndian([j \in 1..n |->
                                                  buf[((i + j - 1) % Len(buf)) + 1]])
            /\ d.exc = "none" =>
                  SelectSeq(Decoded(d), IsMsg) = SelectSeq(RefOf(d).lines, IsMsg)

\* C12 witness: a message with a one-byte and a two-byte argument was
\* decoded from the bytes 02 and 01 00.
C12_Witness ==
    \E k \in Resynced :
        /\ dispatched[k].exc = "none"
        /\ \E j \in 1..Len(dispatched[k].out) : dispatched[k].out[j] = Msg("ab=2,256")

\* C13 (as claimed): when the decode meets, with all its argument bytes
\* present, an id whose format has not as many slots as the descriptor has
\* arguments, the run is not aborted.
C13_MismatchFailsSoft ==
    \A k \in Resynced :
        RefOf(dispatched[k]).mismatch => dispatched[k].exc = "none"

\* The fields of the layout that are to be printed, in layout order
Shown(f) == f.name \notin {"magic", "num_section_bytes"} /\ ~StartsWith(f.name, "pad")

\* The numeral of the bytes of field f of the section at offset, in the
\* byte order in force
FieldValue(offset, f) ==
    LET bytes == SubSeq(data_array, offset + f.offset + 1, offset + f.offset + f.num_bytes)
    IN  IF g_swab THEN bytes ELSE Reverse(bytes)

\* C14 (as claimed): for every fault section, pretty_print emits exactly one
\* line per field that is not suppressed, in layout order, with the value of
\* the field's bytes at section start + offset in the byte order in force.
C14_OneLinePerShownField ==
    \A k \in 1..Len(dispatched) :
        dispatched[k].type = SECTION_TYPE_FAULT =>
            LET d == dispatched[k]
                shown == SelectSeq(fields, Shown)
            IN  /\ d.exc = "none"
                /\ Len(Decoded(d)) = Len(shown)
                /\ \A j \in 1..Len(shown) :
                      /\ Decoded(d)[j].k = "field"
                      /\ Decoded(d)[j].text = RightAlign(max_name_len, shown[j].name)
                      /\ d.offset + shown[j].offset + shown[j].num_bytes <= data_len
                      /\ Decoded(d)[j].bytes = FieldValue(d.offset, shown[j])

\* C16 (as claimed): every candidate start of the resync is
\* (put_idx + t) mod buf_len, and the candidates and the returned start index
\* are indexes of the buffer, for every catalog.
C16_CandidatesInBuffer ==
    \A k \in Accepted :
        LET d == dispatched[k]
        IN  /\ \A t \in 0..max_msg_len :
                  TrialStart(HdrPutIdx(d), t, HdrBufLen(d)) = (HdrPutIdx(d) + t) % HdrBufLen(d)
            /\ d.resync # NoResync
            /\ d.resync.start_idx \in 0..(HdrBufLen(d) - 1)

\* The trials of the section of d whose candidate is an index of the buffer
Trials(d) ==
    {t \in 0..max_msg_len : TrialStart(HdrPutIdx(d), t, HdrBufLen(d)) < HdrBufLen(d)}

\* The read of one byte at index i of the buffer of d
ReadAt(d, i, first_get) ==
    get_data_circ(data_array, i, 1, d.offset + LWL_HEADER_LEN, HdrBufLen(d),
                  HdrPutIdx(d), first_get)

\* C17 (as claimed): in every trial the first byte read, at the candidate
\* start, is permitted even on the put index; a later read ends the trial
\* exactly when it lands on the put index.
C17_FirstReadPermitted ==
    \A k \in Accepted :
        LET d == dispatched[k]
        IN  /\ \A t \in Trials(d) :
                  ReadAt(d, TrialStart(HdrPutIdx(d), t, HdrBufLen(d)),
                         TrialFirstGet(t)).exc = "none"
            /\ \A i \in 0..(HdrBufLen(d) - 1) :
                  ReadAt(d, i, FALSE).exc = "EOFError" <=> i = HdrPutIdx(d)

\* What trial t of the section of d reads, and what it counts
TrialWindow(d, t) ==
    Window(BufOf(d), TrialStart(HdrPutIdx(d), t, HdrBufLen(d)), HdrPutIdx(d),
           TrialFirstGet(t))

TrialOf(d, t) ==
    ResyncTrial(data_array, lwl_msgs, d.offset + LWL_HEADER_LEN, HdrBufLen(d),
                HdrPutIdx(d), TrialStart(HdrPutIdx(d), t, HdrBufLen(d)),
                TrialFirstGet(t), 0)

\* C18: the invalid-id count of a resync trial is the number of bytes read
\* in id position that are no catalog id: an unknown id counts one and the
\* walk resumes at the next byte, a known id with all its argument bytes
\* counts nothing and is stepped over with its arguments, and a known id
\* with too few bytes left before the put index ends the trial uncounted.
C18_TrialCountsInvalidIds ==
    \A k \in Accepted :
        \A t \in Trials(dispatched[k]) :
            /\ TrialOf(dispatched[k], t).exc = "none"
            /\ TrialOf(dispatched[k], t).invalid_id_ctr =
                  LinearCount(lwl_msgs, TrialWindow(dispatched[k], t))

\* C18 witness: a trial met an unknown id and then a known id whose
\* arguments are cut short by the put index; it counted one, fewer than the
\* bytes it read that are no catalog id.
C18_Witness ==
    \E k \in Accepted :
        \E t \in Trials(dispatched[k]) :
            LET L == TrialWindow(dispatched[k], t)
            IN  /\ Len(L) = 4
                /\ L[1] \notin DOMAIN lwl_msgs
                /\ L[2] \in DOMAIN lwl_msgs
                /\ lwl_msgs[L[2]].num_arg_bytes = 3
                /\ L[3] \notin DOMAIN lwl_msgs
                /\ TrialOf(dispatched[k], t).invalid_id_ctr = 1

IsNotUnused(l) == l.k # "unused"

\* C19: in the streaming decode a skipped-data line listing the unknown
\* bytes read since the previous message, in read order, is printed just
\* before the output of the known id that follows them, and no skipped-data
\* line is printed for a known id that no unknown byte precedes.
C19_SkippedBeforeMessage ==
    \A k \in Resynced :
        SelectSeq(Decoded(dispatched[k]), IsNotUnused) = RefOf(dispatched[k]).lines

\* C19 witness: a message printed with no skipped-data line before it, then
\* the two unknown bytes 00 02 listed in read order before the next message.
C19_Witness ==
    \E k \in Resynced :
        /\ dispatched[k].exc = "none"
        /\ Decoded(dispatched[k]) =
              <<Msg("tick"), Line("skipped", "", <<0, 2>>), Msg("tick")>>

\* C20 (as claimed): when the buffer is exhausted after a known id byte and
\* before all its argument bytes, the decode ends with one unused-data line
\* listing that id byte and the argument bytes read, also when that id byte
\* was the first byte of the stream, read at the put index.
C20_UnusedListsPartialMessage ==
    \A k \in Resynced :
        LET d == dispatched[k]
        IN  (d.exc = "none" /\ RefOf(d).partial # <<>>) =>
                /\ Decoded(d) # <<>>
                /\ Decoded(d)[Len(Decoded(d))] = Line("unused", "", RefOf(d).partial)

IsUnused(l) == l.k = "unused"

\* C21 (as claimed): when the buffer is exhausted at the read of an id
\* byte, after a complete message or after unknown bytes were skipped, the
\* decode prints no unused-data line.
C21_NoUnusedAtIdBoundary ==
    \A k \in Resynced :
        LET d == dispatched[k]
        IN  (d.exc = "none" /\ RefOf(d).partial = <<>>) =>
                SelectSeq(Decoded(d), IsUnused) = <<>>

\* L is a concatenation of complete messages of the catalog
RECURSIVE IsTiling(_, _)
IsTiling(msgs, L) ==
    \/ L = <<>>
    \/ /\ L[1] \in DOMAIN msgs
       /\ Len(L) - 1 >= msgs[L[1]].num_arg_bytes
       /\ IsTiling(msgs, SubSeq(L, msgs[L[1]].num_arg_bytes + 2, Len(L)))

\* The whole buffer of d read from its put index round
FromPut(d) == Window(BufOf(d), HdrPutIdx(d), HdrPutIdx(d), TRUE)

\* C22 (as claimed): a buffer that from the put index round is a
\* concatenation of complete catalog messages is decoded into exactly those
\* messages, in that order, with no skipped-data or unused-data line.
C22_TiledBufferInOrder ==
    \A k \in Accepted :
        LET d == dispatched[k]
        IN  IsTiling(lwl_msgs, FromPut(d)) =>
                /\ d.exc = "none"
                /\ Decoded(d) = RefDecode(lwl_msgs, FromPut(d), <<>>, <<>>).lines

\* The lengths of the catalog's messages: the id byte and the arguments
MsgLens == {1 + SumSeq(lwl_msgs[id].arg_bytes) : id \in DOMAIN lwl_msgs}

\* C23: after any sequence of add_lwl_msg calls, accepted or rejected,
\* max_msg_len is the largest over the catalog's entries of 1 + the sum of
\* the entry's argument widths, and 0 when the catalog is empty.
C23_MaxMsgLenIsMaximum ==
    /\ lwl_msgs = <<>> => max_msg_len = 0
    /\ lwl_msgs # <<>> =>
          /\ max_msg_len \in MsgLens
          /\ \A n \in MsgLens : n <= max_msg_len

\* C23 witness: the catalog holds two entries of different lengths, and the
\* last call, rejected as a duplicate, carried a message longer than both:
\* max_msg_len did not take its length.
C23_Witness ==
    /\ Cardinality(DOMAIN lwl_msgs) = 2
    /\ Cardinality(MsgLens) = 2
    /\ call.op = "add_lwl_msg"
    /\ call.ret = FALSE
    /\ 1 + SumSeq(call.arg_bytes) > max_msg_len

\* The fault sections handed to FaultData.pretty_print
Faults == {k \in 1..Len(dispatched) : dispatched[k].type = SECTION_TYPE_FAULT}

\* The length of the longest name among the fields fs
RECURSIVE LongestName(_)
LongestName(fs) ==
    IF fs = <<>> THEN 0
    ELSE LET rest == LongestName(Tail(fs))
         IN  IF Len(fs[1].name) > rest THEN Len(fs[1].name) ELSE rest

\* The lines printed for the section of d carry the names of the printed
\* fields, in layout order, right-aligned in a column of the given width
AlignedTo(d, width) ==
    LET shown == SelectSeq(fields, Shown)
    IN  /\ Len(Decoded(d)) <= Len(shown)
        /\ \A j \in 1..Len(Decoded(d)) :
              Decoded(d)[j].text = Spaces(width - Len(shown[j].name)) \o shown[j].name

\* C24 (as claimed): every field name printed is right-aligned to the
\* length of the longest name among the fields that are printed.
C24_AlignedToPrintedNames ==
    \A k \in Faults : AlignedTo(dispatched[k], LongestName(SelectSeq(fields, Shown)))

\* C24 (amended): every field name printed is right-aligned to the length
\* of the longest name among all the fields of the layout, the suppressed
\* ones (magic, num_section_bytes, names starting with pad) included.
C24_AlignedToAllNames ==
    \A k \in Faults : AlignedTo(dispatched[k], LongestName(fields))

\* C24 witness: with the layout magic, num_section_bytes, code, the line of
\* code was printed, padded to the 17 characters of num_section_bytes.
C24_Witness ==
    \E k \in Faults :
        /\ Len(Decoded(dispatched[k])) = 1
        /\ Decoded(dispatched[k])[1].text = "             code"
        /\ LongestName(SelectSeq(fields, Shown)) = Len("code")

\* C25 (as claimed): every pass of the framing loop either stops
\* process_data or advances the offset by at least the 8 bytes of a section
\* header, so that the loop ends on every blob.
C25_EachPassAdvances ==
    [][(pc = "process" /\ idx < data_len) =>
          (pc' \in {"returned", "raised"} \/ idx' >= idx + SECTION_HEADER_LEN)]_vars

\* C26 (as claimed): every field that pretty_print reads for a fault section
\* lies within the section: no read reaches the next section or the end of
\* the blob.
C26_FaultReadsInsideSection ==
    \A k \in Faults :
        LET d == dispatched[k]
            shown == SelectSeq(fields, Shown)
        IN  /\ d.exc # "EOFError"
            /\ \A j \in 1..Len(Decoded(d)) :
                  shown[j].offset + shown[j].num_bytes <= d.len

\* The bytes listed by the skipped-data and unused-data lines, in order
RECURSIVE AnnotBytes(_)
AnnotBytes(lines) ==
    IF lines = <<>> THEN <<>> ELSE lines[1].bytes \o AnnotBytes(Tail(lines))

\* C27 (as claimed): every byte on the walk from the start index to the put
\* index is accounted for exactly once: the printed messages are those of
\* the walk, and the bytes listed by the skipped-data and unused-data lines
\* are exactly the other bytes of the walk, in order, the unknown bytes
\* skipped just before exhaustion included.
C27_EveryByteAccounted ==
    \A k \in Resynced :
        LET d == dispatched[k]
            r == RefOf(d)
        IN  d.exc = "none" =>
                /\ SelectSeq(Decoded(d), IsMsg) = SelectSeq(r.lines, IsMsg)
                /\ AnnotBytes(Decoded(d)) = AnnotBytes(r.lines) \o r.pending \o r.partial

\* C28 (as claimed): the unknown-id bytes the streaming decode meets on its
\* walk from the chosen start index to the put index are as many as the
\* invalid ids counted by the winning resync trial.
C28_StreamMeetsTrialCount ==
    \A k \in Resynced :
        LET d == dispatched[k]
        IN  d.exc = "none" =>
                LinearCount(lwl_msgs, Window(BufOf(d), d.resync.start_idx,
                                             HdrPutIdx(d), TRUE))
                    = d.resync.invalid_ids

\* lwl.py has left decode_data_file, by a return or by an exception
DecodeEnded == decode.pc \in {"returned", "done", "raised"}

\* C29 (as claimed): for every size, put index below the size and hex data
\* of any length, data shorter than the declared size included, the resync
\* and the print walk of lwl.py's decode_data_file come to an end.
C29_DecodeTerminates == <>DecodeEnded

=============================================================================
